---- MODULE Spec2Model ----
(***************************************************************************)
(* HevyStats: the enrichment and volume pipeline of HevyDataLoader         *)
(* (src/src/data_loader.py).                                               *)
(*                                                                         *)
(* A DataFrame is a record [none, rows]: none = TRUE is Python's None,     *)
(* rows is the sequence of its rows in positional (iloc) order, columns    *)
(* the set of its column names.  A cell                                    *)
(* that pandas may hold as NaN is a sequence: <<>> is NaN, <<v>> a value.  *)
(* A timestamp is a number of ticks, TicksPerDay ticks to a calendar day.  *)
(* An f-string is the sequence of its pieces.  A calendar date is a number *)
(* of days, day 0 being Monday 2020-12-21, the first day of ISO 2020-W52.  *)
(***************************************************************************)
EXTENDS Integers, Sequences, FiniteSets, TLC

VARIABLES files, pc, workout_data, exercise_database, excluded_exercises,
          bodyweight_data, phases_data, gym_data, routines_data,
          today, page, streak, warnings,
          argsort, runs_left, first_run, unknown_exercises

vars == <<files, pc, workout_data, exercise_database, excluded_exercises,
          bodyweight_data, phases_data, gym_data, routines_data,
          today, page, streak, warnings,
          argsort, runs_left, first_run, unknown_exercises>>

loader == <<workout_data, exercise_database, excluded_exercises,
            bodyweight_data, phases_data, gym_data, routines_data>>

\* The state of the page (app.py): the clock's date, what is shown, the
\* streak and the exercises the data-quality warning lists.
app == <<today, page, streak, unknown_exercises>>

\* The runs of the program: how many more are started on this directory, and
\* what the first one read and produced.
runs == <<runs_left, first_run>>

(***************************************************************************)
(* Bounds of the data directory the loader is run on.                      *)
(***************************************************************************)
MaxDay == 1

MaxRows == 3

MaxSeries == 2

\* The set logs of the streak: up to MaxLogged sets in the weeks 0..MaxWeek.
MaxWeek == 5

MaxLogged == 4

TimesOfDay == {0, 1}

TicksPerDay == Cardinality(TimesOfDay)

Days == 0..MaxDay

DaysPerWeek == 7

(***************************************************************************)
(* Values and conversions.                                                 *)
(***************************************************************************)
None == [none |-> TRUE, columns |-> {}, rows |-> <<>>]

DataFrame(columns, rows) == [none |-> FALSE, columns |-> columns, rows |-> rows]

\* A dict or set field of the loader, None until load_exercise_database.
NoValue == [none |-> TRUE, value |-> {}]

Value(v) == [none |-> FALSE, value |-> v]

NaN == <<>>

notna(x) == x # NaN

fillna(x, v) == IF notna(x) THEN x ELSE <<v>>

\* A date-time cell of a CSV file, as written: a calendar day and a time.
DateCell(day, tod) == [day |-> day, tod |-> tod]

DateCells == {DateCell(d, t) : d \in Days, t \in TimesOfDay}

to_datetime(cell) == cell.day * TicksPerDay + cell.tod

\* A numeric cell of a CSV file, as written: a number, text, or nothing.
Num(n) == [kind |-> "num", val |-> n]

Text == [kind |-> "text", val |-> 0]

Empty == [kind |-> "empty", val |-> 0]

to_numeric(cell) == IF cell.kind = "num" THEN <<cell.val>> ELSE NaN

\* start_time.dt.date: the calendar day of a timestamp.
dt_date(ts) == ts \div TicksPerDay

\* pd.Timestamp(date): midnight of a calendar day.
Timestamp(date) == date * TicksPerDay

\* strftime('%Y-%m-%d'): the calendar day as text, the time of day dropped.
strftime(ts) == "day-" \o ToString(dt_date(ts))

BlankStrings == {"", " ", "  "}

\* str.strip() on the labels of the model, which carry no outer blanks.
strip(s) == IF s \in BlankStrings THEN "" ELSE s

Range(s) == {s[i] : i \in DOMAIN s}

SeqsUpTo(S, n) == UNION {[1..k -> S] : k \in 0..n}

(***************************************************************************)
(* DataFrame.sort_values('date').  The default kind is quicksort, which    *)
(* is not stable: rows of equal date come out in an order the code does    *)
(* not determine.  The sort is a function of its keys all the same: the    *)
(* same sequence of dates is put in the same positional order every time.  *)
(* argsort maps the date sequences sorted so far to that order.            *)
(***************************************************************************)
IsSortedBy(rows) == \A i \in 1..(Len(rows) - 1) : rows[i].date <= rows[i + 1].date

Orderings(n) == {p \in [1..n -> 1..n] : \A i, j \in 1..n : p[i] = p[j] => i = j}

Dates(rows) == [i \in DOMAIN rows |-> rows[i].date]

\* The rows in the positional order p.
take(rows, p) == [i \in DOMAIN rows |-> rows[p[i]]]

\* As argsort_of, the order of equal dates being chosen afresh by every sort.
argsort_of_afresh(memo, rows) ==
    {p \in Orderings(Len(rows)) : IsSortedBy(take(rows, p))}

\* The orders the sort may put the rows in, memo being the orders it has
\* put date sequences in before.
argsort_of(memo, rows) ==
    IF Dates(rows) \in DOMAIN memo
       THEN {memo[Dates(rows)]}
       ELSE {p \in Orderings(Len(rows)) : IsSortedBy(take(rows, p))}

remember(memo, rows, p) == (Dates(rows) :> p) @@ memo

sort_values(df, p) == [df EXCEPT !.rows = take(df.rows, p)]

(***************************************************************************)
(* The data directory: the files load_all reads.  A file is a record with  *)
(* exists = FALSE when it is not there.                                    *)
(***************************************************************************)
EmptyDict == [x \in {} |-> x]

MissingCsv == [exists |-> FALSE, columns |-> {}, rows |-> <<>>]

CsvFile(columns, rows) == [exists |-> TRUE, columns |-> columns, rows |-> rows]

MissingJson == [exists |-> FALSE, exercises |-> EmptyDict, excluded_exercises |-> <<>>]

JsonFile(exercises, excluded) ==
    [exists |-> TRUE, exercises |-> exercises, excluded_exercises |-> excluded]

\* exercise_database.json: the "exercises" object.  "Plank" has no
\* weight_type and no gym_dependent key.
ExerciseCatalog ==
    ("Bench Press" :> [muscle_group |-> "chest", weight_type |-> "standard",
                       gym_dependent |-> TRUE]) @@
    ("Dumbbell Curl" :> [muscle_group |-> "biceps", weight_type |-> "double_weight",
                         gym_dependent |-> FALSE]) @@
    ("Lat Pulldown (Assisted)" :> [muscle_group |-> "lats", weight_type |-> "assisted",
                                   gym_dependent |-> TRUE]) @@
    ("Pull Up" :> [muscle_group |-> "lats", weight_type |-> "bodyweight",
                   gym_dependent |-> FALSE]) @@
    ("Weighted Dip" :> [muscle_group |-> "triceps", weight_type |-> "weighted_bodyweight",
                        gym_dependent |-> FALSE]) @@
    ("Plank" :> [muscle_group |-> "core"])

\* Titles that may be logged: the catalog's, and two the catalog lacks.
ExerciseTitles == DOMAIN ExerciseCatalog \cup {"Mystery Move", "Stretching"}

FilterTitles == {"Bench Press", "Stretching", "Lat Pulldown (Assisted)"}

ExcludedLists == {<<>>, <<"Stretching">>, <<"Stretching", "Bench Press">>}

SetTypes == {"normal", "warmup"}

WorkoutColumns ==
    {"exercise_title", "set_type", "start_time", "end_time", "weight_kg", "reps"}

\* One line of workout_data.csv, as written in the file.
WorkoutLine(title, set_type, start, weight, reps) ==
    [exercise_title |-> title, set_type |-> set_type, start_time |-> start,
     end_time |-> start, weight_kg |-> weight, reps |-> reps]

WeightCells == {Empty, Text, Num(75)}

RepsCells == {Empty, Text, Num(10)}

\* Values of the series files, by position in the file.
SampleWeights == <<80, 60, 75, 65>>

GymNames == <<"Gym A", "Gym B", "Gym C", "Gym D">>

RoutineLabels == <<<<"Push Pull Legs">>, NaN, <<"  ">>, <<"Upper Lower">>>>

PhaseNames == <<"cut", "bulk", "maintenance", "cut">>

BodyweightLines(dates) ==
    [i \in DOMAIN dates |-> [date |-> dates[i], weight_kg |-> SampleWeights[i]]]

GymLines(dates) == [i \in DOMAIN dates |-> [date |-> dates[i], gym |-> GymNames[i]]]

RoutineLines(dates) ==
    [i \in DOMAIN dates |->
        [date |-> dates[i], routine_id |-> i, routine_label |-> RoutineLabels[i]]]

PhaseLines(dates) == [i \in DOMAIN dates |-> [date |-> dates[i], phase |-> PhaseNames[i]]]

SeriesDates == SeqsUpTo(DateCells, MaxSeries)

OneDate == <<DateCell(0, 1)>>

DataDir(catalog, workout, bodyweight, phases, gyms, routine) ==
    [exercise_database |-> catalog, workout_data |-> workout,
     bodyweight_data |-> bodyweight, body_composition_phases |-> phases,
     gyms |-> gyms, routine |-> routine]

\* No optional series file at all, or each with fixed lines.
NoSeries(catalog, workout) ==
    DataDir(catalog, workout, MissingCsv, MissingCsv, MissingCsv, MissingCsv)

FixedSeries(catalog, workout) ==
    DataDir(catalog, workout,
            CsvFile({"date", "weight_kg"}, BodyweightLines(OneDate)),
            CsvFile({"date", "phase"}, PhaseLines(<<DateCell(1, 0), DateCell(0, 0)>>)),
            CsvFile({"date", "gym"}, GymLines(OneDate)),
            CsvFile({"date", "routine_id", "routine_label"}, RoutineLines(OneDate)))

\* Set logs of up to MaxRows lines that differ in exercise and set type,
\* with and without the set_type column.
FilterLines ==
    {WorkoutLine(t, s, DateCell(1, 0), Num(75), Num(10)) : t \in FilterTitles, s \in SetTypes}

FilterLogs ==
    {CsvFile(WorkoutColumns, rows) : rows \in SeqsUpTo(FilterLines, MaxRows)} \cup
    {CsvFile(WorkoutColumns \ {"set_type"},
             [i \in DOMAIN rows |-> [rows[i] EXCEPT !.set_type = ""]]) :
        rows \in SeqsUpTo(FilterLines, MaxRows)}

\* Set logs of one line of any exercise, time, weight and reps.
VolumeLogs ==
    {CsvFile(WorkoutColumns, <<WorkoutLine(t, "normal", d, w, r)>>) :
        t \in ExerciseTitles \ {"Stretching"}, d \in DateCells,
        w \in WeightCells, r \in RepsCells}

\* The exercises whose volume takes the bodyweight, and a standard one.
SampledTitles == {"Lat Pulldown (Assisted)", "Pull Up", "Weighted Dip", "Bench Press"}

\* Set logs of one line of these exercises at any time, with or without a
\* weight.
SampledLogs ==
    {CsvFile(WorkoutColumns, <<WorkoutLine(t, "normal", d, w, Num(10))>>) :
        t \in SampledTitles, d \in DateCells, w \in {Empty, Num(75)}}

\* Set logs of one line logged at any time.
TimedLogs ==
    {CsvFile(WorkoutColumns, <<WorkoutLine("Pull Up", "normal", d, Num(75), Num(10))>>) :
        d \in DateCells}

Catalogs == {JsonFile(ExerciseCatalog, x) : x \in ExcludedLists}

OneSample == CsvFile({"date", "weight_kg"}, BodyweightLines(OneDate))

OneGym == CsvFile({"date", "gym"}, GymLines(OneDate))

OneRoutine == CsvFile({"date", "routine_id", "routine_label"}, RoutineLines(OneDate))

\* The data directories the loader is run on: f is one of them.
FilterDir(f) ==
    \E w \in FilterLogs :
        \/ \E c \in {MissingJson} \cup Catalogs : f = NoSeries(c, w)
        \/ \E c \in Catalogs : f = FixedSeries(c, w)

\* Any cells beside a bodyweight file of at most one sample, or a weight
\* and reps beside any bodyweight file.
VolumeDir(f) ==
    \/ \E w \in VolumeLogs :
          \/ \E d \in SeqsUpTo(DateCells, 1) :
                f = DataDir(JsonFile(ExerciseCatalog, <<>>), w,
                            CsvFile({"date", "weight_kg"}, BodyweightLines(d)),
                            MissingCsv, MissingCsv, MissingCsv)
          \/ f = NoSeries(JsonFile(ExerciseCatalog, <<>>), w)
    \/ \E w \in SampledLogs, d \in SeriesDates :
          f = DataDir(JsonFile(ExerciseCatalog, <<>>), w,
                      CsvFile({"date", "weight_kg"}, BodyweightLines(d)),
                      MissingCsv, MissingCsv, MissingCsv)

GymDir(f) ==
    \E w \in TimedLogs, d \in SeriesDates, b \in {MissingCsv, OneSample},
       r \in {MissingCsv, OneRoutine} :
        f = DataDir(JsonFile(ExerciseCatalog, <<>>), w, b, MissingCsv,
                    CsvFile({"date", "gym"}, GymLines(d)), r)

RoutineDir(f) ==
    \E w \in TimedLogs, d \in SeriesDates, b \in {MissingCsv, OneSample},
       g \in {MissingCsv, OneGym} :
        f = DataDir(JsonFile(ExerciseCatalog, <<>>), w, b, MissingCsv, g,
                    CsvFile({"date", "routine_id", "routine_label"}, RoutineLines(d)))

NoLogDir(f) == f = NoSeries(JsonFile(ExerciseCatalog, <<>>), MissingCsv)

\* Set logs spread over several weeks, for the streak: the Mondays of the
\* weeks 0..MaxWeek and Sunday 2021-01-03 (day 13, in ISO 2020-W53), in
\* chronological or reverse chronological order.
StreakDays == {DaysPerWeek * k : k \in 0..MaxWeek} \cup {2 * DaysPerWeek - 1}

Monotone(s) ==
    \/ \A i \in 1..(Len(s) - 1) : s[i] <= s[i + 1]
    \/ \A i \in 1..(Len(s) - 1) : s[i] >= s[i + 1]

\* A log of more than three sets has them on different days.
Spread(s) == Len(s) > 3 => \A i, j \in DOMAIN s : i # j => s[i] # s[j]

StreakLogs ==
    {CsvFile(WorkoutColumns,
             [i \in DOMAIN s |->
                 WorkoutLine("Bench Press", "normal", DateCell(s[i], 1), Num(75), Num(10))]) :
        s \in {q \in SeqsUpTo(StreakDays, MaxLogged) : Monotone(q) /\ Spread(q)}}

StreakDir(f) == \E w \in StreakLogs : f = NoSeries(JsonFile(ExerciseCatalog, <<>>), w)

\* Set logs of two sets of one session, run twice: a catalogued bodyweight
\* exercise, a standard one and an excluded one, with gym and routine series
\* of three entries, in any order, whose dates may be equal.
RerunTitles == {"Pull Up", "Bench Press", "Stretching"}

RerunLogs ==
    {CsvFile(WorkoutColumns,
             <<WorkoutLine(a, "normal", DateCell(1, 0), Num(75), Num(10)),
               WorkoutLine(b, "normal", DateCell(1, 0), Num(75), Num(10))>>) :
        a, b \in RerunTitles}

RerunDates == {<<a, b, c>> : a, b, c \in {DateCell(0, 0), DateCell(1, 0)}}

RerunDir(f) ==
    \E w \in RerunLogs, d \in RerunDates, b \in {MissingCsv, OneSample} :
        \/ f = DataDir(JsonFile(ExerciseCatalog, <<"Stretching">>), w, b, MissingCsv,
                       CsvFile({"date", "gym"}, GymLines(d)), MissingCsv)
        \/ f = DataDir(JsonFile(ExerciseCatalog, <<"Stretching">>), w, b, MissingCsv,
                       CsvFile({"date", "gym"}, GymLines(d)),
                       CsvFile({"date", "routine_id", "routine_label"}, RoutineLines(d)))

\* Set logs of two sets, of an exercise the catalog has or lacks, logged on
\* Monday 2020-12-21 or Monday 2021-01-04, without a routine file or with
\* one whose two entries start on these two days.
QualityDays == {0, 2 * DaysPerWeek}

QualityLogs ==
    {CsvFile(WorkoutColumns,
             <<WorkoutLine(a, "normal", DateCell(d, 1), Num(75), Num(10)),
               WorkoutLine(b, "normal", DateCell(e, 1), Num(75), Num(10))>>) :
        a, b \in {"Mystery Move", "Bench Press"}, d, e \in QualityDays}

QualityDir(f) ==
    \E w \in QualityLogs :
        \/ f = NoSeries(JsonFile(ExerciseCatalog, <<>>), w)
        \/ f = DataDir(JsonFile(ExerciseCatalog, <<>>), w, MissingCsv, MissingCsv, MissingCsv,
                       CsvFile({"date", "routine_id", "routine_label"},
                               RoutineLines(<<DateCell(0, 0), DateCell(2 * DaysPerWeek, 0)>>)))

\* Set logs of two sets of one calendar day, at its two times of day, beside
\* any bodyweight file and a gym and a routine entry.
SameDayLogs ==
    {CsvFile(WorkoutColumns,
             <<WorkoutLine("Pull Up", "normal", DateCell(d, 0), Num(75), Num(10)),
               WorkoutLine("Pull Up", "normal", DateCell(d, 1), Num(75), Num(10))>>) :
        d \in Days}

SameDayDir(f) ==
    \E w \in SameDayLogs, d \in SeriesDates :
        f = DataDir(JsonFile(ExerciseCatalog, <<>>), w,
                    CsvFile({"date", "weight_kg"}, BodyweightLines(d)), MissingCsv,
                    OneGym, OneRoutine)

\* Set logs of two sets logged around a change of ISO year: Monday
\* 2020-12-28 and Sunday 2021-01-03 (2020-W53), Monday 2021-01-04 (2021-W01),
\* Monday 2021-12-27 and Sunday 2022-01-02 (2021-W52), Monday 2022-01-03
\* (2022-W01).  The page is opened on one of these days.
YearEndWeeks == {1, 2, 53, 54}

YearEndDays ==
    {DaysPerWeek * k : k \in YearEndWeeks} \cup {DaysPerWeek * k + DaysPerWeek - 1 : k \in {1, 53}}

YearEndLogs ==
    {CsvFile(WorkoutColumns,
             <<WorkoutLine("Bench Press", "normal", DateCell(d, 1), Num(75), Num(10)),
               WorkoutLine("Bench Press", "normal", DateCell(e, 1), Num(75), Num(10))>>) :
        d, e \in YearEndDays}

YearEndDir(f) == \E w \in YearEndLogs : f = NoSeries(JsonFile(ExerciseCatalog, <<>>), w)

\* The dates the clock may show when the page is opened.
StreakTodays == {DaysPerWeek * k : k \in 0..(MaxWeek + 2)} \cup {2 * DaysPerWeek - 1}

(***************************************************************************)
(* HevyDataLoader.__init__ and the loaders, in the order load_all calls    *)
(* them; pc names the call load_all makes next.                            *)
(***************************************************************************)
\* first_run before a second run is started.
NoRun == [none |-> TRUE, files |-> NoSeries(MissingJson, MissingCsv), workout_data |-> None]

Init ==
    /\ \/ /\ \/ FilterDir(files)
             \/ VolumeDir(files)
             \/ GymDir(files)
             \/ RoutineDir(files)
             \/ NoLogDir(files)
             \/ QualityDir(files)
             \/ SameDayDir(files)
          /\ today = MaxDay
          /\ runs_left = 0
       \/ /\ YearEndDir(files)
          /\ today \in YearEndDays
          /\ runs_left = 0
       \/ /\ StreakDir(files)
          /\ today \in StreakTodays
          /\ runs_left = 0
       \/ /\ RerunDir(files)
          /\ today = MaxDay
          /\ runs_left = 1
    /\ pc = "load_exercise_database"
    /\ workout_data = None
    /\ exercise_database = NoValue
    /\ excluded_exercises = NoValue
    /\ bodyweight_data = None
    /\ phases_data = None
    /\ gym_data = None
    /\ routines_data = None
    /\ page = "loading"
    /\ streak = NaN
    /\ warnings = {}
    /\ argsort = EmptyDict
    /\ first_run = NoRun
    /\ unknown_exercises = <<>>

\* pd.read_csv followed by pd.to_datetime on the 'date' column.
read_series(file) ==
    DataFrame(file.columns,
              [i \in DOMAIN file.rows |->
                  [file.rows[i] EXCEPT !.date = to_datetime(file.rows[i].date)]])

\* As load_exercise_database, a missing catalog being fatal.
load_exercise_database_raises ==
    /\ pc = "load_exercise_database"
    /\ IF ~files.exercise_database.exists
          THEN /\ pc' = "raised"
               /\ UNCHANGED <<exercise_database, excluded_exercises>>
          ELSE /\ pc' = "load_workout_data"
               /\ exercise_database' = Value(files.exercise_database.exercises)
               /\ excluded_exercises' = Value(Range(files.exercise_database.excluded_exercises))
    /\ UNCHANGED <<app, runs, argsort, warnings, files, workout_data, bodyweight_data,
                   phases_data, gym_data, routines_data>>

load_exercise_database ==
    /\ pc = "load_exercise_database"
    /\ pc' = "load_workout_data"
    /\ IF ~files.exercise_database.exists
          THEN /\ exercise_database' = Value(EmptyDict)
               /\ excluded_exercises' = Value({})
          ELSE /\ exercise_database' = Value(files.exercise_database.exercises)
               /\ excluded_exercises' = Value(Range(files.exercise_database.excluded_exercises))
    /\ warnings' = IF ~files.exercise_database.exists
                       THEN warnings \cup {"Warning: Exercise database not found"}
                       ELSE warnings
    /\ UNCHANGED <<app, runs, argsort, files, workout_data, bodyweight_data, phases_data,
                   gym_data, routines_data>>

\* As load_workout_data_raises, a missing set log being skipped.
load_workout_data_skips ==
    /\ pc = "load_workout_data"
    /\ ~files.workout_data.exists
    /\ pc' = "load_bodyweight_data"
    /\ UNCHANGED <<app, runs, argsort, warnings, files, loader>>

\* FileNotFoundError: load_all stops here.
load_workout_data_raises ==
    /\ pc = "load_workout_data"
    /\ ~files.workout_data.exists
    /\ pc' = "raised"
    /\ UNCHANGED <<app, runs, argsort, warnings, files, loader>>

\* One parsed line of the set log; index is its label in the frame.
parse_workout_line(line, i) ==
    [index |-> i - 1,
     exercise_title |-> line.exercise_title,
     set_type |-> line.set_type,
     start_time |-> to_datetime(line.start_time),
     end_time |-> to_datetime(line.end_time),
     weight_kg |-> to_numeric(line.weight_kg),
     reps |-> to_numeric(line.reps)]

load_workout_data ==
    /\ pc = "load_workout_data"
    /\ files.workout_data.exists
    /\ pc' = "load_bodyweight_data"
    /\ workout_data' =
          DataFrame(files.workout_data.columns,
                    [i \in DOMAIN files.workout_data.rows |->
                        parse_workout_line(files.workout_data.rows[i], i)])
    /\ UNCHANGED <<app, runs, argsort, warnings, files, exercise_database, excluded_exercises,
                   bodyweight_data, phases_data, gym_data, routines_data>>

\* As load_bodyweight_data, process_data being called next.
load_bodyweight_data_then_process ==
    /\ pc = "load_bodyweight_data"
    /\ pc' = "process_data"
    /\ bodyweight_data' = IF files.bodyweight_data.exists
                             THEN read_series(files.bodyweight_data)
                             ELSE bodyweight_data
    /\ UNCHANGED <<app, runs, argsort, warnings, files, workout_data, exercise_database,
                   excluded_exercises, phases_data, gym_data, routines_data>>

\* The bodyweight samples are kept in file order: this loader does not sort.
load_bodyweight_data ==
    /\ pc = "load_bodyweight_data"
    /\ pc' = "load_body_composition_phases"
    /\ bodyweight_data' = IF files.bodyweight_data.exists
                             THEN read_series(files.bodyweight_data)
                             ELSE bodyweight_data
    /\ UNCHANGED <<app, runs, argsort, warnings, files, workout_data, exercise_database,
                   excluded_exercises, phases_data, gym_data, routines_data>>

load_body_composition_phases ==
    /\ pc = "load_body_composition_phases"
    /\ pc' = "load_gym_data"
    /\ IF files.body_composition_phases.exists
          THEN LET df == read_series(files.body_composition_phases)
               IN  \E p \in argsort_of(argsort, df.rows) :
                      /\ phases_data' = sort_values(df, p)
                      /\ argsort' = remember(argsort, df.rows, p)
          ELSE UNCHANGED <<phases_data, argsort>>
    /\ UNCHANGED <<app, runs, warnings, files, workout_data, exercise_database,
                   excluded_exercises, bodyweight_data, gym_data, routines_data>>

load_gym_data ==
    /\ pc = "load_gym_data"
    /\ pc' = "load_routine_data"
    /\ IF files.gyms.exists
          THEN LET df == read_series(files.gyms)
               IN  \E p \in argsort_of(argsort, df.rows) :
                      /\ gym_data' = sort_values(df, p)
                      /\ argsort' = remember(argsort, df.rows, p)
          ELSE UNCHANGED <<gym_data, argsort>>
    /\ UNCHANGED <<app, runs, warnings, files, workout_data, exercise_database,
                   excluded_exercises, bodyweight_data, phases_data, routines_data>>

load_routine_data ==
    /\ pc = "load_routine_data"
    /\ pc' = "process_data"
    /\ IF files.routine.exists
          THEN LET df == read_series(files.routine)
               IN  \E p \in argsort_of(argsort, df.rows) :
                      /\ routines_data' = sort_values(df, p)
                      /\ argsort' = remember(argsort, df.rows, p)
          ELSE UNCHANGED <<routines_data, argsort>>
    /\ UNCHANGED <<app, runs, warnings, files, workout_data, exercise_database,
                   excluded_exercises, bodyweight_data, phases_data, gym_data>>

(***************************************************************************)
(* process_data: the filters, the catalog lookup, the gym and routine      *)
(* joins and the volume of every set.                                      *)
(***************************************************************************)
DefaultBodyweight == 70

\* As get_bodyweight_for_date, with the default for a date before every sample.
get_bodyweight_default_before_first(workout_date) ==
    IF bodyweight_data.none
       THEN DefaultBodyweight
       ELSE LET valid_entries ==
                    SelectSeq(bodyweight_data.rows, LAMBDA r : r.date <= workout_date)
            IN  IF valid_entries = <<>>
                   THEN DefaultBodyweight
                   ELSE valid_entries[Len(valid_entries)].weight_kg

get_bodyweight_for_date(workout_date) ==
    IF bodyweight_data.none
       THEN DefaultBodyweight
       ELSE LET valid_entries ==
                    SelectSeq(bodyweight_data.rows, LAMBDA r : r.date <= workout_date)
            IN  IF valid_entries = <<>>
                   THEN IF bodyweight_data.rows # <<>>
                           THEN bodyweight_data.rows[1].weight_kg
                           ELSE DefaultBodyweight
                   ELSE valid_entries[Len(valid_entries)].weight_kg

\* 1. Filter excluded exercises (skipped when the set is empty or None).
filter_excluded(rows) ==
    IF ~excluded_exercises.none /\ excluded_exercises.value # {}
       THEN SelectSeq(rows, LAMBDA r : r.exercise_title \notin excluded_exercises.value)
       ELSE rows

\* As filter_warmup, with the comparison inverted.
filter_warmup_inverted(columns, rows) ==
    IF "set_type" \in columns
       THEN SelectSeq(rows, LAMBDA r : r.set_type = "warmup")
       ELSE rows

\* As filter_warmup, dropping the first row as well.
filter_warmup_drop_head(columns, rows) ==
    IF "set_type" \in columns
       THEN SelectSeq(SubSeq(rows, 2, Len(rows)), LAMBDA r : r.set_type # "warmup")
       ELSE rows

\* As filter_warmup, a frame without a set_type column losing every row.
filter_warmup_requires_column(columns, rows) ==
    IF "set_type" \in columns
       THEN SelectSeq(rows, LAMBDA r : r.set_type # "warmup")
       ELSE <<>>

\* 2. Filter warmup sets (only when the frame has a set_type column).
filter_warmup(columns, rows) ==
    IF "set_type" \in columns
       THEN SelectSeq(rows, LAMBDA r : r.set_type # "warmup")
       ELSE rows

\* As get_meta, with the weight_type key misspelt: never found.
get_meta_misspelt(exercise, field, default) ==
    IF exercise \in DOMAIN exercise_database.value /\ field # "weight_type"
       THEN IF field \in DOMAIN exercise_database.value[exercise]
               THEN exercise_database.value[exercise][field]
               ELSE default
       ELSE default

\* 3. dict.get(exercise, {}).get(field, default)
get_meta(exercise, field, default) ==
    IF exercise \in DOMAIN exercise_database.value
       THEN IF field \in DOMAIN exercise_database.value[exercise]
               THEN exercise_database.value[exercise][field]
               ELSE default
       ELSE default

\* As is_mapped, the joins taking place only beside a bodyweight series.
is_mapped_with_bodyweight(df) == ~df.none /\ df.rows # <<>> /\ ~bodyweight_data.none

\* The gym mapping takes place only for a gym frame that is there and not empty.
is_mapped(df) == ~df.none /\ df.rows # <<>>

\* As get_gym, without the date <= dt test.
get_gym_unfiltered(gyms, dt) ==
    LET candidates == gyms.rows
    IN  IF candidates = <<>>
           THEN "Unknown"
           ELSE candidates[Len(candidates)].gym

\* As get_gym, taking iloc[0] of the candidates.
get_gym_first_candidate(gyms, dt) ==
    LET candidates == SelectSeq(gyms.rows, LAMBDA r : r.date <= dt)
    IN  IF candidates = <<>>
           THEN "Unknown"
           ELSE candidates[1].gym

\* As get_gym, falling back to the first entry as the bodyweight lookup does.
get_gym_first_entry_fallback(gyms, dt) ==
    LET candidates == SelectSeq(gyms.rows, LAMBDA r : r.date <= dt)
    IN  IF candidates = <<>>
           THEN gyms.rows[1].gym
           ELSE candidates[Len(candidates)].gym

get_gym(gyms, dt) ==
    LET candidates == SelectSeq(gyms.rows, LAMBDA r : r.date <= dt)
    IN  IF candidates = <<>>
           THEN "Unknown"
           ELSE candidates[Len(candidates)].gym

gym_of(gyms, dt) == IF is_mapped(gyms) THEN get_gym(gyms, dt) ELSE "Unknown"

\* The label of a routine entry: its routine_label, or its id when the
\* label is missing or blank.
display_label(curr) ==
    IF notna(curr.routine_label) /\ strip(curr.routine_label[1]) # ""
       THEN curr.routine_label[1]
       ELSE ToString(curr.routine_id)

\* As get_fmt_routine, every window being open ended.
get_fmt_routine_open_ended(routines, dt) ==
    LET cand == SelectSeq(routines.rows, LAMBDA r : r.date <= dt)
    IN  IF cand = <<>>
           THEN <<"Unknown">>
           ELSE LET curr == cand[Len(cand)]
                    start_str == strftime(curr.date)
                IN  <<display_label(curr), " (", start_str, " - ", "Present", ")">>

get_fmt_routine(routines, dt) ==
    LET cand == SelectSeq(routines.rows, LAMBDA r : r.date <= dt)
    IN  IF cand = <<>>
           THEN <<"Unknown">>
           ELSE LET curr == cand[Len(cand)]
                    next_routines ==
                        SelectSeq(routines.rows, LAMBDA r : r.date > curr.date)
                    end_date == IF next_routines = <<>>
                                   THEN "Present"
                                   ELSE strftime(next_routines[1].date)
                    start_str == strftime(curr.date)
                IN  <<display_label(curr), " (", start_str, " - ", end_date, ")">>

routine_of(routines, dt) ==
    IF is_mapped(routines) THEN get_fmt_routine(routines, dt) ELSE <<"Unknown">>

\* 4. Volume.  Arithmetic on cells: NaN in, NaN out.
Mul(a, b) == IF notna(a) /\ notna(b) THEN <<a[1] * b[1]>> ELSE NaN

BodyweightTypes == {"assisted", "bodyweight", "weighted_bodyweight"}

\* A. Standard: every weight_type that is not one of the four special ones.
standard_volume(row) == Mul(fillna(row.weight_kg, 0), row.reps)

\* As double_weight_volume, without the factor 2.
double_weight_volume_single(row) == Mul(fillna(row.weight_kg, 0), row.reps)

\* B. Double weight.
double_weight_volume(row) == Mul(Mul(fillna(row.weight_kg, 0), <<2>>), row.reps)

\* As bodyweight_volume, with the assisted load floored at 0.
bodyweight_volume_clamped(row) ==
    LET bw == get_bodyweight_for_date(Timestamp(row.workout_date))
        weight == IF notna(row.weight_kg) THEN row.weight_kg[1] ELSE 0
        reps == IF notna(row.reps) THEN row.reps[1] ELSE 0
        w_type == row.weight_type
    IN  IF w_type = "assisted"
           THEN <<(IF bw > weight THEN bw - weight ELSE 0) * reps>>
           ELSE IF w_type = "bodyweight"
                   THEN <<bw * reps>>
                   ELSE <<(bw + weight) * reps>>

\* As bodyweight_volume, with the logged weight added for "bodyweight" too.
bodyweight_volume_adds_weight(row) ==
    LET bw == get_bodyweight_for_date(Timestamp(row.workout_date))
        weight == IF notna(row.weight_kg) THEN row.weight_kg[1] ELSE 0
        reps == IF notna(row.reps) THEN row.reps[1] ELSE 0
        w_type == row.weight_type
    IN  IF w_type = "assisted"
           THEN <<(bw - weight) * reps>>
           ELSE <<(bw + weight) * reps>>

\* As bodyweight_volume, the bodyweight looked up at start_time.
bodyweight_volume_at_start_time(row) ==
    LET bw == get_bodyweight_for_date(row.start_time)
        weight == IF notna(row.weight_kg) THEN row.weight_kg[1] ELSE 0
        reps == IF notna(row.reps) THEN row.reps[1] ELSE 0
        w_type == row.weight_type
    IN  IF w_type = "assisted"
           THEN <<(bw - weight) * reps>>
           ELSE IF w_type = "bodyweight"
                   THEN <<bw * reps>>
                   ELSE <<(bw + weight) * reps>>

\* C. The bodyweight dependent types, computed row by row.
bodyweight_volume(row) ==
    LET bw == get_bodyweight_for_date(Timestamp(row.workout_date))
        weight == IF notna(row.weight_kg) THEN row.weight_kg[1] ELSE 0
        reps == IF notna(row.reps) THEN row.reps[1] ELSE 0
        w_type == row.weight_type
    IN  IF w_type = "assisted"
           THEN <<(bw - weight) * reps>>
           ELSE IF w_type = "bodyweight"
                   THEN <<bw * reps>>
                   ELSE <<(bw + weight) * reps>>

\* As volume_of, with the standard formula for weight_type "standard" only:
\* any other weight_type keeps the initial volume 0.0.
volume_of_named_standard(row) ==
    fillna(IF row.weight_type \in BodyweightTypes
              THEN bodyweight_volume(row)
              ELSE IF row.weight_type = "double_weight"
                      THEN double_weight_volume(row)
                      ELSE IF row.weight_type = "standard"
                              THEN standard_volume(row)
                              ELSE <<0>>,
           0)

\* As volume_of, without the final fillna(0).
volume_of_unfilled(row) ==
    IF row.weight_type \in BodyweightTypes
       THEN bodyweight_volume(row)
       ELSE IF row.weight_type = "double_weight"
               THEN double_weight_volume(row)
               ELSE standard_volume(row)

volume_of(row) ==
    fillna(IF row.weight_type \in BodyweightTypes
              THEN bodyweight_volume(row)
              ELSE IF row.weight_type = "double_weight"
                      THEN double_weight_volume(row)
                      ELSE standard_volume(row),
           0)

EnrichedColumns ==
    {"muscle_group", "weight_type", "gym_dependent", "gym", "routine_name",
     "workout_date", "volume"}

\* As with_attributes, with the filled weight written back to the row.
with_attributes_weight_filled(r, gyms, routines) ==
    [index |-> r.index,
     exercise_title |-> r.exercise_title,
     set_type |-> r.set_type,
     start_time |-> r.start_time,
     end_time |-> r.end_time,
     weight_kg |-> fillna(r.weight_kg, 0),
     reps |-> r.reps,
     muscle_group |-> get_meta(r.exercise_title, "muscle_group", "unknown"),
     weight_type |-> get_meta(r.exercise_title, "weight_type", "unknown"),
     gym_dependent |-> get_meta(r.exercise_title, "gym_dependent", FALSE),
     gym |-> gym_of(gyms, r.start_time),
     routine_name |-> routine_of(routines, r.start_time),
     workout_date |-> dt_date(r.start_time)]

\* One row with the columns of steps 3 and the two joins added.
with_attributes(r, gyms, routines) ==
    [index |-> r.index,
     exercise_title |-> r.exercise_title,
     set_type |-> r.set_type,
     start_time |-> r.start_time,
     end_time |-> r.end_time,
     weight_kg |-> r.weight_kg,
     reps |-> r.reps,
     muscle_group |-> get_meta(r.exercise_title, "muscle_group", "unknown"),
     weight_type |-> get_meta(r.exercise_title, "weight_type", "unknown"),
     gym_dependent |-> get_meta(r.exercise_title, "gym_dependent", FALSE),
     gym |-> gym_of(gyms, r.start_time),
     routine_name |-> routine_of(routines, r.start_time),
     workout_date |-> dt_date(r.start_time)]

with_volume(r) ==
    [index |-> r.index,
     exercise_title |-> r.exercise_title,
     set_type |-> r.set_type,
     start_time |-> r.start_time,
     end_time |-> r.end_time,
     weight_kg |-> r.weight_kg,
     reps |-> r.reps,
     muscle_group |-> r.muscle_group,
     weight_type |-> r.weight_type,
     gym_dependent |-> r.gym_dependent,
     gym |-> r.gym,
     routine_name |-> r.routine_name,
     workout_date |-> r.workout_date,
     volume |-> volume_of(r)]

enriched(df, gyms, routines) ==
    LET kept == filter_warmup(df.columns, filter_excluded(df.rows))
    IN  DataFrame(df.columns \cup EnrichedColumns,
                  [i \in DOMAIN kept |-> with_volume(with_attributes(kept[i], gyms, routines))])

\* The two joins sort their frame again before they use it, when it is
\* there and not empty.
resort_of(memo, df) == IF is_mapped(df) THEN argsort_of(memo, df.rows) ELSE {<<>>}

resorted(df, p) == IF is_mapped(df) THEN sort_values(df, p) ELSE df

remembered(memo, df, p) == IF is_mapped(df) THEN remember(memo, df.rows, p) ELSE memo

run_process_data ==
    /\ IF workout_data.none
          THEN UNCHANGED <<workout_data, gym_data, routines_data, argsort>>
          ELSE \E pg \in resort_of(argsort, gym_data) :
                  LET gyms == resorted(gym_data, pg)
                      memo == remembered(argsort, gym_data, pg)
                  IN  \E pr \in resort_of(memo, routines_data) :
                         LET routines == resorted(routines_data, pr)
                         IN  /\ gym_data' = gyms
                             /\ routines_data' = routines
                             /\ argsort' = remembered(memo, routines_data, pr)
                             /\ workout_data' = enriched(workout_data, gyms, routines)
    /\ UNCHANGED <<app, runs, warnings, files, exercise_database, excluded_exercises,
                   bodyweight_data, phases_data>>

\* The call load_all ends with.
process_data ==
    /\ pc = "process_data"
    /\ pc' = "done"
    /\ run_process_data

\* A second call of process_data, by a caller other than the page, on the
\* frame the first call left.
process_data_again ==
    /\ pc = "done"
    /\ page = "loading"
    /\ pc' = "done_again"
    /\ run_process_data

(***************************************************************************)
(* app.py: the ISO calendar, the weekly streak and the page.               *)
(***************************************************************************)
\* The year and the ISO week of day 0.
EpochYear == 2020

EpochWeek == 52

\* The weekday of 31 December of year y (0 is Sunday).
dec31_weekday(y) == (y + y \div 4 - y \div 100 + y \div 400) % 7

\* An ISO year has 53 weeks when it ends on a Thursday or the year before
\* it ends on a Wednesday, 52 otherwise.
weeks_in_year(y) == IF dec31_weekday(y) = 4 \/ dec31_weekday(y - 1) = 3 THEN 53 ELSE 52

RECURSIVE iso_normalize(_, _)
iso_normalize(y, w) ==
    IF w > weeks_in_year(y) THEN iso_normalize(y + 1, w - weeks_in_year(y)) ELSE <<y, w>>

\* date.isocalendar(): the ISO (year, week) of a calendar date.
isocalendar(date) == iso_normalize(EpochYear, EpochWeek + date \div DaysPerWeek)

RECURSIVE weeks_since_epoch(_, _)
weeks_since_epoch(y, w) ==
    IF y = EpochYear THEN w - EpochWeek
                     ELSE weeks_in_year(y - 1) + weeks_since_epoch(y - 1, w)

\* datetime.fromisocalendar(y, w, 1): the Monday of an ISO week.
fromisocalendar(y, w) == DaysPerWeek * weeks_since_epoch(y, w)

\* As abs, the sign kept.
abs_signed(n) == n

abs(n) == IF n < 0 THEN -n ELSE n

\* As weeks_diff, every year counted as 52 weeks.
weeks_diff_by_number(y1, w1, y2, w2) == abs((y1 - y2) * 52 + (w1 - w2))

weeks_diff(y1, w1, y2, w2) ==
    abs(fromisocalendar(y1, w1) - fromisocalendar(y2, w2)) \div DaysPerWeek

\* The order of Python tuples (year, week).
tuple_less(a, b) == a[1] < b[1] \/ (a[1] = b[1] /\ a[2] < b[2])

\* sorted(list(set(...)), reverse=True)
RECURSIVE sorted_reverse(_)
sorted_reverse(S) ==
    IF S = {}
       THEN <<>>
       ELSE LET top == CHOOSE a \in S : \A b \in S : ~tuple_less(a, b)
            IN  <<top>> \o sorted_reverse(S \ {top})

\* The loop over unique_weeks[1:]: i is the position, curr the week reached.
RECURSIVE count_consecutive(_, _, _, _)
count_consecutive(unique_weeks, i, curr, n) ==
    IF i > Len(unique_weeks)
       THEN n
       ELSE IF weeks_diff(curr[1], curr[2], unique_weeks[i][1], unique_weeks[i][2]) = 1
               THEN count_consecutive(unique_weeks, i + 1, unique_weeks[i], n + 1)
               ELSE n

\* As calculate_current_streak, without the test of the distance from now.
calculate_streak_never_stale(df, current_date) ==
    IF df.none \/ df.rows = <<>>
       THEN 0
       ELSE LET unique_weeks ==
                    sorted_reverse({isocalendar(dt_date(r.start_time)) : r \in Range(df.rows)})
            IN  count_consecutive(unique_weeks, 2, unique_weeks[1], 1)

\* As calculate_current_streak, counting every logged week.
calculate_streak_all_weeks(df, current_date) ==
    IF df.none \/ df.rows = <<>>
       THEN 0
       ELSE LET current == isocalendar(current_date)
                unique_weeks ==
                    sorted_reverse({isocalendar(dt_date(r.start_time)) : r \in Range(df.rows)})
                last == unique_weeks[1]
            IN  IF weeks_diff(current[1], current[2], last[1], last[2]) > 1
                   THEN 0
                   ELSE Len(unique_weeks)

calculate_current_streak(df, current_date) ==
    IF df.none \/ df.rows = <<>>
       THEN 0
       ELSE LET current == isocalendar(current_date)
                unique_weeks ==
                    sorted_reverse({isocalendar(dt_date(r.start_time)) : r \in Range(df.rows)})
            IN  IF unique_weeks = <<>>
                   THEN 0
                   ELSE LET last == unique_weeks[1]
                            diff_from_now ==
                                weeks_diff(current[1], current[2], last[1], last[2])
                        IN  IF diff_from_now > 1
                               THEN 0
                               ELSE count_consecutive(unique_weeks, 2, last, 1)

\* Day 0 is 21 December: its place in the year, counted from 0.
EpochDayOfYear == 355

days_in_year(y) == IF y % 4 = 0 /\ (y % 100 # 0 \/ y % 400 = 0) THEN 366 ELSE 365

RECURSIVE year_from(_, _)
year_from(y, n) ==
    IF n >= days_in_year(y) THEN year_from(y + 1, n - days_in_year(y)) ELSE y

\* start_time.dt.year: the calendar year of a timestamp.
dt_year(ts) == year_from(EpochYear, EpochDayOfYear + dt_date(ts))

\* "All Time" and "All Splits": no year filter, no routine filter.
AllTime == NaN

AllSplits == <<"All Splits">>

available_years(df) == {dt_year(r.start_time) : r \in Range(df.rows)}

routine_names(df) == {r.routine_name : r \in Range(df.rows)}

\* groupby('routine_name')['start_time'].min()
min_start_time(df, name) ==
    LET times == {r.start_time : r \in {x \in Range(df.rows) : x.routine_name = name}}
    IN  CHOOSE t \in times : \A u \in times : t <= u

\* The routines of the frame, the one first logged latest coming first.
RECURSIVE routine_order(_, _)
routine_order(df, names) ==
    IF names = {}
       THEN <<>>
       ELSE LET top == CHOOSE a \in names :
                           \A b \in names : min_start_time(df, b) <= min_start_time(df, a)
            IN  <<top>> \o routine_order(df, names \ {top})

available_routines(df) == <<AllSplits>> \o routine_order(df, routine_names(df))

\* What the two selectboxes show before the user touches them.
default_selection(df) ==
    [year |-> AllTime,
     routine |-> available_routines(df)[IF Len(available_routines(df)) > 1 THEN 2 ELSE 1]]

\* What the user may select.
selections(df) ==
    {[year |-> y, routine |-> r] :
        y \in {AllTime} \cup {<<a>> : a \in available_years(df)},
        r \in Range(available_routines(df))}

\* The rows of the selected year and the selected routine.
filtered_df(df, sel) ==
    SelectSeq(SelectSeq(df.rows,
                        LAMBDA r : sel.year = AllTime \/ dt_year(r.start_time) = sel.year[1]),
              LAMBDA r : sel.routine = AllSplits \/ r.routine_name = sel.routine)

\* Series.unique(): the values in the order of their first appearance.
RECURSIVE unique(_)
unique(values) ==
    IF values = <<>>
       THEN <<>>
       ELSE LET init == unique(SubSeq(values, 1, Len(values) - 1))
                last == values[Len(values)]
            IN  IF last \in Range(init) THEN init ELSE Append(init, last)

\* The exercises the data-quality warning names.
unknown_of(rows) ==
    LET unknown == SelectSeq(rows, LAMBDA r : r.muscle_group = "unknown")
    IN  unique([i \in DOMAIN unknown |-> unknown[i].exercise_title])

\* load_data returned no loader, or one without a set log: st.error, st.stop.
app_load_failed ==
    /\ page = "loading"
    /\ pc = "raised" \/ (pc = "done" /\ workout_data.none)
    /\ page' = "error"
    /\ UNCHANGED <<today, streak, unknown_exercises, runs, argsort, warnings, files, pc,
                   loader>>

\* One run of the script: the streak is computed on the whole enriched
\* frame, the warning on the rows the sidebar selects.
render(sel) ==
    /\ page' = "dashboard"
    /\ streak' = <<calculate_current_streak(workout_data, today)>>
    /\ unknown_exercises' = unknown_of(filtered_df(workout_data, sel))
    /\ UNCHANGED <<today, runs, argsort, warnings, files, pc, loader>>

\* The dashboard as first drawn.
app_dashboard ==
    /\ page = "loading"
    /\ pc = "done"
    /\ ~workout_data.none
    /\ render(default_selection(workout_data))

\* The user selects a year and a split: the script runs again.
app_select ==
    /\ page = "dashboard"
    /\ \E sel \in selections(workout_data) : render(sel)

\* The bodyweight files a second run of the program may find.
LaterBodyweights ==
    {MissingCsv,
     CsvFile({"date", "weight_kg"}, BodyweightLines(OneDate)),
     CsvFile({"date", "weight_kg"},
             BodyweightLines(<<DateCell(1, 0), DateCell(1, 0), DateCell(0, 0)>>))}

\* The program is started again on the same directory, the bodyweight file
\* being the same or another one: a new loader, the same sort.
run_again ==
    /\ pc = "done"
    /\ page = "loading"
    /\ runs_left > 0
    /\ runs_left' = runs_left - 1
    /\ first_run' = [none |-> FALSE, files |-> files, workout_data |-> workout_data]
    /\ \E b \in {files.bodyweight_data} \cup LaterBodyweights :
          files' = [files EXCEPT !.bodyweight_data = b]
    /\ pc' = "load_exercise_database"
    /\ workout_data' = None
    /\ exercise_database' = NoValue
    /\ excluded_exercises' = NoValue
    /\ bodyweight_data' = None
    /\ phases_data' = None
    /\ gym_data' = None
    /\ routines_data' = None
    /\ warnings' = {}
    /\ UNCHANGED <<app, argsort>>

Next ==
    \/ load_exercise_database
    \/ load_workout_data_raises
    \/ load_workout_data
    \/ load_bodyweight_data
    \/ load_body_composition_phases
    \/ load_gym_data
    \/ load_routine_data
    \/ process_data
    \/ process_data_again
    \/ app_load_failed
    \/ app_dashboard
    \/ app_select
    \/ run_again

Spec == Init /\ [][Next]_vars

done == pc = "done"

TypeOK ==
    /\ pc \in {"load_exercise_database", "load_workout_data", "load_bodyweight_data",
               "load_body_composition_phases", "load_gym_data", "load_routine_data",
               "process_data", "done", "done_again", "raised"}
    /\ page \in {"loading", "error", "dashboard"}
    /\ done => ~workout_data.none

(***************************************************************************)
(* Properties of the enriched dataset.                                     *)
(***************************************************************************)
EnrichedRows == IF done THEN Range(workout_data.rows) ELSE {}

\* The query time of the bodyweight lookup: midnight of the session date.
SessionDate(r) == Timestamp(dt_date(r.start_time))

Samples == Range(bodyweight_data.rows)

\* The rows whose volume tells which bodyweight was used.
UsesBodyweight(r) == r.weight_type \in BodyweightTypes /\ notna(r.reps) /\ r.reps[1] > 0

LoggedWeight(r) == IF notna(r.weight_kg) THEN r.weight_kg[1] ELSE 0

LoggedReps(r) == IF notna(r.reps) THEN r.reps[1] ELSE 0

\* The bodyweight a row's volume was computed with.
BodyweightUsed(r) ==
    IF r.weight_type = "assisted"
       THEN r.volume[1] \div r.reps[1] + LoggedWeight(r)
       ELSE IF r.weight_type = "bodyweight"
               THEN r.volume[1] \div r.reps[1]
               ELSE r.volume[1] \div r.reps[1] - LoggedWeight(r)

\* The entries of a series that are not later than t, and the latest of them.
UpTo(entries, t) == {e \in entries : e.date <= t}

Latest(entries) == {e \in entries : \A o \in entries : o.date <= e.date}

GymEntries == Range(gym_data.rows)

RoutineEntries == Range(routines_data.rows)

GymNeverFuture(r) == \A e \in GymEntries : e.gym = r.gym => e.date <= r.start_time

RoutineNeverFuture(r) ==
    \A e \in RoutineEntries : display_label(e) = r.routine_name[1] => e.date <= r.start_time

BodyweightNeverFuture(r) ==
    UsesBodyweight(r) =>
        \A e \in Samples : e.weight_kg = BodyweightUsed(r) => e.date <= SessionDate(r)

BodyweightLoaded == pc \in {"load_body_composition_phases", "load_gym_data",
                            "load_routine_data", "process_data", "done"}

QueryDates == {Timestamp(d) : d \in Days}

AsOfBodyweights(t) ==
    IF UpTo(Samples, t) = {}
       THEN {DefaultBodyweight}
       ELSE {e.weight_kg : e \in Latest(UpTo(Samples, t))}

\* The index of the last row, in stored order, dated on or before t; 0 if none.
LastRowUpTo(rows, t) ==
    LET hits == {i \in DOMAIN rows : rows[i].date <= t}
    IN  IF hits = {} THEN 0 ELSE CHOOSE i \in hits : \A j \in hits : j <= i

\* The bodyweight the loader resolves for t, stated on the stored series.
StoredBodyweight(t) ==
    IF Samples = {}
       THEN DefaultBodyweight
       ELSE IF LastRowUpTo(bodyweight_data.rows, t) = 0
               THEN bodyweight_data.rows[1].weight_kg
               ELSE bodyweight_data.rows[LastRowUpTo(bodyweight_data.rows, t)].weight_kg

Assisted(r) == r.weight_type = "assisted"

C4_DoubleWeightVolume ==
    \A r \in EnrichedRows :
        r.weight_type = "double_weight" =>
            r.volume = <<LoggedWeight(r) * 2 * LoggedReps(r)>>

\* A double_weight set with weight and reps, enriched beside a bodyweight series.
C4_Witness ==
    \E r \in EnrichedRows :
        /\ r.weight_type = "double_weight"
        /\ notna(r.weight_kg) /\ notna(r.reps)
        /\ r.volume[1] > 0
        /\ Samples # {}

\* The exclusion list of the catalog file and the lines of the set log.
ExcludedNames ==
    IF files.exercise_database.exists
       THEN Range(files.exercise_database.excluded_exercises)
       ELSE {}

LogLines == files.workout_data.rows

HasSetType == "set_type" \in files.workout_data.columns

IsWarmup(line) == HasSetType /\ line.set_type = "warmup"

\* C5: no enriched row is of an excluded exercise, none is a warm-up set.
C5_NoExcludedNoWarmup ==
    \A r \in EnrichedRows :
        /\ r.exercise_title \notin ExcludedNames
        /\ ~IsWarmup(r)

\* A log with an excluded line, a warm-up line and a line that is kept.
C5_Witness ==
    /\ done
    /\ \E i \in DOMAIN LogLines : LogLines[i].exercise_title \in ExcludedNames
    /\ \E i \in DOMAIN LogLines :
          IsWarmup(LogLines[i]) /\ LogLines[i].exercise_title \notin ExcludedNames
    /\ workout_data.rows # <<>>

\* The positions of the log lines that are neither excluded nor warm-up.
Surviving ==
    {i \in DOMAIN LogLines :
        LogLines[i].exercise_title \notin ExcludedNames /\ ~IsWarmup(LogLines[i])}

\* The k-th smallest member of a set of positions.
Nth(S, k) == CHOOSE i \in S : Cardinality({j \in S : j < i}) = k - 1

RawFields(r) ==
    [index |-> r.index, exercise_title |-> r.exercise_title, set_type |-> r.set_type,
     start_time |-> r.start_time, end_time |-> r.end_time, weight_kg |-> r.weight_kg,
     reps |-> r.reps]

\* C6: the enriched rows are the log lines that are neither excluded nor
\* warm-up, one row per line, in the order of the log, raw fields unchanged.
C6_FilterKeepsOrderAndFields ==
    done =>
        /\ Len(workout_data.rows) = Cardinality(Surviving)
        /\ \A k \in DOMAIN workout_data.rows :
              RawFields(workout_data.rows[k]) =
                  parse_workout_line(LogLines[Nth(Surviving, k)], Nth(Surviving, k))

\* A dropped line between two kept lines of different exercises.
C6_Witness ==
    /\ done
    /\ Surviving = {1, 3}
    /\ Len(workout_data.rows) = 2
    /\ workout_data.rows[1].exercise_title # workout_data.rows[2].exercise_title

\* C7: the bodyweight resolved for a session date is that of the sample with
\* the latest date among those dated on or before it, in any file order.
C7_LatestSampleAnyOrder ==
    \A r \in EnrichedRows :
        (UsesBodyweight(r) /\ UpTo(Samples, SessionDate(r)) # {}) =>
            BodyweightUsed(r) \in AsOfBodyweights(SessionDate(r))

\* The gym file as written, its dates parsed.
GymLinesRead ==
    IF files.gyms.exists
       THEN {[date |-> to_datetime(l.date), gym |-> l.gym] : l \in Range(files.gyms.rows)}
       ELSE {}

\* C8: the gym of a set is that of the gym entry with the latest date among
\* the entries dated on or before start_time, in any file order.
C8_LatestGymAnyOrder ==
    \A r \in EnrichedRows :
        UpTo(GymLinesRead, r.start_time) # {} =>
            r.gym \in {e.gym : e \in Latest(UpTo(GymLinesRead, r.start_time))}

\* A gym file written latest entry first, both entries before the set.
C8_Witness ==
    \E r \in EnrichedRows :
        /\ Len(files.gyms.rows) = 2
        /\ to_datetime(files.gyms.rows[2].date) < to_datetime(files.gyms.rows[1].date)
        /\ to_datetime(files.gyms.rows[1].date) <= r.start_time
        /\ r.gym = files.gyms.rows[1].gym

RoutineLinesRead ==
    IF files.routine.exists
       THEN {to_datetime(l.date) : l \in Range(files.routine.rows)}
       ELSE {}

\* C9: without a gym (routine) series, or with an empty one, every set has
\* gym (routine_name) "Unknown"; so has a set that precedes every entry.
C9_UnknownWithoutEntry ==
    \A r \in EnrichedRows :
        /\ UpTo(GymLinesRead, r.start_time) = {} => r.gym = "Unknown"
        /\ {d \in RoutineLinesRead : d <= r.start_time} = {} => r.routine_name = <<"Unknown">>

\* A set logged before every entry of a gym series that has entries.
C9_Witness ==
    \E r \in EnrichedRows :
        /\ GymLinesRead # {}
        /\ \A e \in GymLinesRead : r.start_time < e.date
        /\ r.gym = "Unknown"

\* C10: a query time equal to an entry's date selects an entry of that date,
\* for the bodyweight (query time: the session date), gym and routine series.
C10_BoundaryEntrySelected ==
    \A r \in EnrichedRows :
        /\ (UsesBodyweight(r) /\ \E e \in Samples : e.date = SessionDate(r)) =>
               \E e \in Samples : e.date = SessionDate(r) /\ e.weight_kg = BodyweightUsed(r)
        /\ (\E e \in GymEntries : e.date = r.start_time) =>
               \E e \in GymEntries : e.date = r.start_time /\ e.gym = r.gym
        /\ (\E e \in RoutineEntries : e.date = r.start_time) =>
               \E e \in RoutineEntries :
                   e.date = r.start_time /\ display_label(e) = r.routine_name[1]

\* C11: a set whose weight_type is none of double_weight, assisted, bodyweight
\* and weighted_bodyweight has volume weight_kg * reps, absent weight or reps
\* counting as 0, whatever the bodyweight series holds.
C11_StandardVolume ==
    \A r \in EnrichedRows :
        r.weight_type \notin BodyweightTypes \cup {"double_weight"} =>
            r.volume = <<LoggedWeight(r) * LoggedReps(r)>>

\* A set of an exercise the catalog lacks, enriched beside a bodyweight series.
C11_Witness ==
    \E r \in EnrichedRows :
        /\ r.weight_type = "unknown"
        /\ r.exercise_title \notin DOMAIN ExerciseCatalog
        /\ notna(r.weight_kg) /\ notna(r.reps)
        /\ r.volume[1] > 0
        /\ Samples # {}

RepsCell(r) == LogLines[r.index + 1].reps

WeightCell(r) == LogLines[r.index + 1].weight_kg

\* C13: every enriched row has a volume; a set with absent or unparseable
\* reps has volume 0, a set with absent weight_kg is computed with weight 0,
\* and a set log that is there never makes the pipeline raise.
C13_VolumeNeverNull ==
    /\ files.workout_data.exists => pc # "raised"
    /\ \A r \in EnrichedRows :
          /\ notna(r.volume)
          /\ RepsCell(r).kind # "num" => r.volume = <<0>>
          /\ WeightCell(r).kind # "num" =>
                r.volume = IF r.weight_type \in BodyweightTypes
                              THEN <<StoredBodyweight(SessionDate(r)) * LoggedReps(r)>>
                              ELSE <<0>>

\* An assisted set whose reps cell is text, and a set without weight.
C13_Witness ==
    \E r \in EnrichedRows :
        /\ RepsCell(r).kind = "text"
        /\ WeightCell(r).kind = "empty"
        /\ r.weight_type = "assisted"
        /\ r.volume = <<0>>

\* The "exercises" object of the catalog file.
CatalogRead ==
    IF files.exercise_database.exists THEN files.exercise_database.exercises ELSE EmptyDict

\* C14: an exercise that is no key of the catalog gets muscle_group
\* "unknown", weight_type "unknown" and gym_dependent false; one that is a
\* key gets the catalog's values of these fields, and the same defaults for
\* the fields its catalog entry lacks.
C14_CatalogLookup ==
    \A r \in EnrichedRows :
        LET t == r.exercise_title
        IN  IF t \notin DOMAIN CatalogRead
               THEN /\ r.muscle_group = "unknown"
                    /\ r.weight_type = "unknown"
                    /\ r.gym_dependent = FALSE
               ELSE /\ r.muscle_group = IF "muscle_group" \in DOMAIN CatalogRead[t]
                                           THEN CatalogRead[t].muscle_group
                                           ELSE "unknown"
                    /\ r.weight_type = IF "weight_type" \in DOMAIN CatalogRead[t]
                                          THEN CatalogRead[t].weight_type
                                          ELSE "unknown"
                    /\ r.gym_dependent = IF "gym_dependent" \in DOMAIN CatalogRead[t]
                                            THEN CatalogRead[t].gym_dependent
                                            ELSE FALSE

\* A set of a catalogued exercise whose weight_type is not the default.
C14_Witness ==
    \E r \in EnrichedRows :
        /\ r.exercise_title \in DOMAIN CatalogRead
        /\ r.weight_type = "assisted"
        /\ r.gym_dependent = TRUE

\* C15: without a set log load_all raises at load_workout_data: no later
\* loader and no process_data runs, workout_data stays None, and the page
\* shows the load failure, never the dashboard.
C15_MissingLogIsFatal ==
    ~files.workout_data.exists =>
        /\ pc \in {"load_exercise_database", "load_workout_data", "raised"}
        /\ workout_data = None
        /\ page \in {"loading", "error"}
        /\ page = "error" => pc = "raised"

\* The load has failed and the page reports it.
C15_Witness ==
    /\ ~files.workout_data.exists
    /\ pc = "raised"
    /\ page = "error"
    /\ workout_data = None

\* The lines of the set log that are not warm-up sets.
NotWarmup == {i \in DOMAIN LogLines : ~IsWarmup(LogLines[i])}

\* C16: with a set log, load_all never raises, whichever optional file is
\* missing; a missing series leaves its frame None; a missing catalog gives
\* an empty catalog and exclusion set and a warning, so that no set is
\* dropped as excluded and every exercise is classified unknown.
C16_OptionalSourcesDefault ==
    files.workout_data.exists =>
        /\ pc # "raised"
        /\ page # "error"
        /\ (done /\ ~files.bodyweight_data.exists) => bodyweight_data = None
        /\ (done /\ ~files.gyms.exists) => gym_data = None
        /\ (done /\ ~files.routine.exists) => routines_data = None
        /\ (done /\ ~files.exercise_database.exists) =>
              /\ exercise_database = Value(EmptyDict)
              /\ excluded_exercises = Value({})
              /\ warnings = {"Warning: Exercise database not found"}
              /\ Len(workout_data.rows) = Cardinality(NotWarmup)
              /\ \A r \in EnrichedRows :
                    r.muscle_group = "unknown" /\ r.weight_type = "unknown"

\* No catalog and no series: a set of an exercise a catalog would
\* exclude is kept and classified unknown.
C16_Witness ==
    /\ done
    /\ ~files.exercise_database.exists
    /\ ~files.bodyweight_data.exists
    /\ warnings = {"Warning: Exercise database not found"}
    /\ \E r \in EnrichedRows : r.exercise_title = "Stretching" /\ r.muscle_group = "unknown"

\* The weeks, counted from day 0, in which sets are logged; the most
\* recent of them; the week of the clock.
LoggedWeeks == {dt_date(r.start_time) \div DaysPerWeek : r \in Range(workout_data.rows)}

LastLoggedWeek == CHOOSE w \in LoggedWeeks : \A o \in LoggedWeeks : o <= w

CurrentWeek == today \div DaysPerWeek

Shown == page = "dashboard" /\ workout_data.rows # <<>>

\* C17: the streak is 0 when the most recent logged week is more than one
\* week behind the current week.
C17_StaleStreakIsZero ==
    (Shown /\ CurrentWeek - LastLoggedWeek > 1) => streak = <<0>>

\* Two consecutive logged weeks, the later one three weeks ago.
C17_Witness ==
    /\ Shown
    /\ CurrentWeek - LastLoggedWeek = 3
    /\ LastLoggedWeek - 1 \in LoggedWeeks
    /\ streak = <<0>>

\* The length of the run of logged weeks that ends at the most recent one.
RunLength ==
    CHOOSE n \in 1..Cardinality(LoggedWeeks) :
        /\ \A j \in 0..(n - 1) : LastLoggedWeek - j \in LoggedWeeks
        /\ LastLoggedWeek - n \notin LoggedWeeks

\* C18: when the most recent logged week is the current week or the one
\* before it, the streak is the length of the run of consecutive logged
\* weeks that ends at the most recent one.
C18_StreakIsRunLength ==
    (Shown /\ CurrentWeek - LastLoggedWeek \in {0, 1}) => streak = <<RunLength>>

\* Four sessions in three consecutive weeks across the change of ISO year,
\* the last of them in the week before the current one: the streak is 3.
C18_Witness ==
    /\ Shown
    /\ CurrentWeek - LastLoggedWeek = 1
    /\ Len(workout_data.rows) = 4
    /\ isocalendar(DaysPerWeek * LastLoggedWeek) = <<EpochYear + 1, 1>>
    /\ streak = <<3>>

\* The filter stage of process_data.
FilterStage(columns, rows) == filter_warmup(columns, filter_excluded(rows))

\* C19: filtering the filtered rows again drops nothing and keeps the order.
C19_FilterIdempotent ==
    (pc \in {"process_data", "done"} /\ ~workout_data.none) =>
        LET once == FilterStage(workout_data.columns, workout_data.rows)
        IN  /\ FilterStage(workout_data.columns, once) = once
            /\ done => once = workout_data.rows

\* A loaded set log of which the filters drop a line and keep two.
C19_Witness ==
    /\ pc = "process_data"
    /\ Len(workout_data.rows) = 3
    /\ Len(FilterStage(workout_data.columns, workout_data.rows)) = 2

VolumeFrom(weight_type, weight_kg, reps, bw) ==
    IF ~notna(reps)
       THEN <<0>>
       ELSE LET w == IF notna(weight_kg) THEN weight_kg[1] ELSE 0
                n == reps[1]
            IN  IF weight_type = "double_weight" THEN <<w * 2 * n>>
                ELSE IF weight_type = "assisted" THEN <<(bw - w) * n>>
                ELSE IF weight_type = "bodyweight" THEN <<bw * n>>
                ELSE IF weight_type = "weighted_bodyweight" THEN <<(bw + w) * n>>
                ELSE <<w * n>>

SecondRun == done /\ ~first_run.none

\* Two entries of the gym file have the same date.
GymDatesTie ==
    \E i, j \in DOMAIN files.gyms.rows : i # j /\ files.gyms.rows[i].date = files.gyms.rows[j].date

LastWritten(file, t) ==
    LET lines == read_series(file).rows
        hits == {i \in DOMAIN lines :
                    /\ lines[i].date <= t
                    /\ \A j \in DOMAIN lines : lines[j].date <= t => lines[j].date <= lines[i].date}
    IN  IF hits = {} THEN 0 ELSE CHOOSE i \in hits : \A j \in hits : j <= i

\* Two or more lines of the file have the latest date on or before t.
SharedLatest(file, t) ==
    /\ LastWritten(file, t) # 0
    /\ \E i \in DOMAIN file.rows :
          /\ i # LastWritten(file, t)
          /\ file.rows[i].date = file.rows[LastWritten(file, t)].date

\* C24: of the entries of a series that share the latest date on or before
\* the query time, the one written last in the file is selected, for the
\* bodyweight, gym and routine series.
C24_LastWriteWins ==
    \A r \in EnrichedRows :
        /\ (files.gyms.exists /\ SharedLatest(files.gyms, r.start_time)) =>
               r.gym = files.gyms.rows[LastWritten(files.gyms, r.start_time)].gym
        /\ (files.routine.exists /\ SharedLatest(files.routine, r.start_time)) =>
               r.routine_name[1] =
                   display_label(files.routine.rows[LastWritten(files.routine, r.start_time)])
        /\ (files.bodyweight_data.exists /\ UsesBodyweight(r)
              /\ SharedLatest(files.bodyweight_data, SessionDate(r))) =>
               BodyweightUsed(r) =
                   files.bodyweight_data.rows[
                       LastWritten(files.bodyweight_data, SessionDate(r))].weight_kg

\* The routine entries dated after e, and how a window that starts at e ends.
LaterEntries(e) == {x \in RoutineEntries : x.date > e.date}

WindowEnd(e) ==
    IF LaterEntries(e) = {}
       THEN "Present"
       ELSE strftime((CHOOSE x \in LaterEntries(e) : \A y \in LaterEntries(e) : x.date <= y.date).date)

\* C22: the routine_name of a set names an entry of the latest date on or
\* before start_time, the day that entry starts and the day the next later
\* entry starts, or "Present" when no entry is later.
C22_RoutineWindow ==
    \A r \in EnrichedRows :
        UpTo(RoutineEntries, r.start_time) # {} =>
            \E e \in Latest(UpTo(RoutineEntries, r.start_time)) :
                r.routine_name =
                    <<display_label(e), " (", strftime(e.date), " - ", WindowEnd(e), ")">>

\* A set logged between the two entries of a routine file.
C22_Witness ==
    \E r \in EnrichedRows :
        /\ Len(r.routine_name) = 6
        /\ r.routine_name[5] # "Present"
        /\ r.routine_name[5] # r.routine_name[3]
        /\ \E e \in RoutineEntries : e.date > r.start_time

\* C23: every exercise of the enriched frame whose muscle_group is "unknown"
\* is named in the warning of the page, whatever is selected in the sidebar.
C23_UnknownListed ==
    page = "dashboard" =>
        \A r \in Range(workout_data.rows) :
            r.muscle_group = "unknown" => r.exercise_title \in Range(unknown_exercises)

\* The gym (routine) entries dated on or before t.
GymUpTo(t) == UpTo(GymEntries, t)

RoutineUpTo(t) == UpTo(RoutineEntries, t)

\* C25: the bodyweight of a set is resolved for midnight of the calendar day
\* of start_time, so two sets of one day are given the same bodyweight; the
\* gym and the routine are resolved for start_time itself.
C25_BodyweightByDateJoinsByTime ==
    /\ \A r \in EnrichedRows :
          /\ UsesBodyweight(r) =>
                BodyweightUsed(r) = StoredBodyweight(Timestamp(dt_date(r.start_time)))
          /\ is_mapped(gym_data) => (r.gym = "Unknown" <=> GymUpTo(r.start_time) = {})
          /\ is_mapped(routines_data) =>
                (r.routine_name = <<"Unknown">> <=> RoutineUpTo(r.start_time) = {})
    /\ \A a, b \in EnrichedRows :
          (UsesBodyweight(a) /\ UsesBodyweight(b)
             /\ dt_date(a.start_time) = dt_date(b.start_time)) =>
              BodyweightUsed(a) = BodyweightUsed(b)

\* Two sets of one day, a sample and a gym entry dated between them: the
\* same bodyweight, which is not that sample, and two gyms.
C25_Witness ==
    \E a, b \in EnrichedRows :
        /\ dt_date(a.start_time) = dt_date(b.start_time)
        /\ a.start_time < b.start_time
        /\ \E e \in Samples :
              /\ a.start_time < e.date /\ e.date <= b.start_time
              /\ e.weight_kg # BodyweightUsed(b)
        /\ BodyweightUsed(a) = BodyweightUsed(b)
        /\ a.gym = "Unknown" /\ b.gym # "Unknown"
        /\ a.routine_name = <<"Unknown">> /\ b.routine_name # <<"Unknown">>

\* The lines of the set log whose exercise is not excluded.
NotExcluded == {i \in DOMAIN LogLines : LogLines[i].exercise_title \notin ExcludedNames}

\* C26: of a set log without a set_type column, the enriched rows are the
\* lines whose exercise is not excluded, in the order of the file.
C26_NoSetTypeKeepsAll ==
    (done /\ ~HasSetType) =>
        /\ {r.index + 1 : r \in EnrichedRows} = NotExcluded
        /\ Len(workout_data.rows) = Cardinality(NotExcluded)
        /\ \A i, j \in DOMAIN workout_data.rows :
              i < j => workout_data.rows[i].index < workout_data.rows[j].index

\* A log without a set_type column: one of three lines is excluded.
C26_Witness ==
    /\ done
    /\ ~HasSetType
    /\ Len(LogLines) = 3
    /\ Len(workout_data.rows) = 2

\* The days on which sets are logged, and the ISO week of a day.
LoggedDays == {dt_date(r.start_time) : r \in Range(workout_data.rows)}

\* C27: the week distance of two logged days is the number of weeks between
\* their Mondays, also across a change of ISO year; a day of early January
\* that lies in the last ISO week of the year before is counted in that
\* week; a streak of the last week of a year and W01 of the next is 2.
C27_IsoWeeksAcrossYears ==
    page = "dashboard" =>
        /\ \A d, e \in LoggedDays \cup {today} :
              /\ weeks_diff(isocalendar(d)[1], isocalendar(d)[2],
                            isocalendar(e)[1], isocalendar(e)[2])
                    = abs(d \div DaysPerWeek - e \div DaysPerWeek)
              /\ (isocalendar(d)[1] = isocalendar(e)[1] - 1
                    /\ isocalendar(d)[2] = weeks_in_year(isocalendar(d)[1])
                    /\ isocalendar(e)[2] = 1) =>
                     weeks_diff(isocalendar(e)[1], isocalendar(e)[2],
                                isocalendar(d)[1], isocalendar(d)[2]) = 1
              /\ dt_year(Timestamp(d)) > isocalendar(d)[1] =>
                     isocalendar(d) = <<dt_year(Timestamp(d)) - 1,
                                        weeks_in_year(dt_year(Timestamp(d)) - 1)>>
        /\ (Shown /\ Cardinality(LoggedWeeks) = 2 /\ LastLoggedWeek - 1 \in LoggedWeeks
              /\ CurrentWeek - LastLoggedWeek \in {0, 1}) => streak = <<2>>

\* Sets on Sunday 2021-01-03, in 2020-W53, and on Monday 2021-01-04, in
\* 2021-W01, the page being opened in 2021-W01: a streak of 2.
C27_Witness ==
    /\ Shown
    /\ \E d \in LoggedDays :
          dt_year(Timestamp(d)) = EpochYear + 1 /\ isocalendar(d) = <<EpochYear, 53>>
    /\ \E d \in LoggedDays : isocalendar(d) = <<EpochYear + 1, 1>>
    /\ isocalendar(today) = <<EpochYear + 1, 1>>
    /\ streak = <<2>>

\* A frame as its loader leaves it: None without the file, the lines of the
\* file otherwise, sorted by date when the loader sorts.
KeptAsRead(frame, file) ==
    IF file.exists THEN frame = read_series(file) ELSE frame = None

SortedAsRead(frame, file) ==
    IF file.exists
       THEN /\ ~frame.none
            /\ IsSortedBy(frame.rows)
            /\ Len(frame.rows) = Len(file.rows)
            /\ Range(frame.rows) = Range(read_series(file).rows)
       ELSE frame = None

AllLoaded ==
    /\ ~exercise_database.none
    /\ ~excluded_exercises.none
    /\ ~workout_data.none
    /\ KeptAsRead(bodyweight_data, files.bodyweight_data)
    /\ SortedAsRead(phases_data, files.body_composition_phases)
    /\ SortedAsRead(gym_data, files.gyms)
    /\ SortedAsRead(routines_data, files.routine)

IsEnriched(df) == "volume" \in df.columns

\* C28: process_data starts after the catalog, the set log and the four
\* series have been loaded, the frame is enriched by that one call of
\* load_all, and no series changes once the frame is enriched.
C28_LoadBeforeTransform ==
    /\ [](pc \in {"process_data", "done", "done_again"} => AllLoaded)
    /\ [](IsEnriched(workout_data) <=> pc \in {"done", "done_again"})
    /\ [][/\ pc' = "process_data" => pc = "load_routine_data"
          /\ pc = "process_data" => (pc' = "done" /\ IsEnriched(workout_data'))
          /\ (pc \in {"done", "done_again"} /\ pc' \in {"done", "done_again"}) =>
                /\ bodyweight_data' = bodyweight_data
                /\ phases_data' = phases_data
                /\ Range(gym_data'.rows) = Range(gym_data.rows)
                /\ Range(routines_data'.rows) = Range(routines_data.rows)
                /\ exercise_database' = exercise_database]_vars

\* The four series files are there and the frame is enriched from them.
C28_Witness ==
    /\ done
    /\ files.bodyweight_data.exists /\ files.body_composition_phases.exists
    /\ files.gyms.exists /\ files.routine.exists
    /\ \E r \in EnrichedRows :
          /\ r.gym # "Unknown"
          /\ r.routine_name # <<"Unknown">>
          /\ UsesBodyweight(r)
          /\ BodyweightUsed(r) = SampleWeights[1]

\* The rows of the first run and of the second, by position.
FirstRows == first_run.workout_data.rows

KeyOf(r) ==
    <<r.index, r.exercise_title, r.gym, r.routine_name, r.muscle_group, r.weight_type>>

\* C29: a second run that finds another bodyweight file, all else being the
\* same, keeps the rows and their gym, routine_name, muscle_group and
\* weight_type, and the volume of every set whose weight_type is none of
\* assisted, bodyweight and weighted_bodyweight.
C29_BodyweightIndependence ==
    SecondRun =>
        /\ Len(workout_data.rows) = Len(FirstRows)
        /\ \A i \in DOMAIN FirstRows :
              /\ KeyOf(workout_data.rows[i]) = KeyOf(FirstRows[i])
              /\ workout_data.rows[i].gym_dependent = FirstRows[i].gym_dependent
              /\ workout_data.rows[i].weight_type \notin BodyweightTypes =>
                    workout_data.rows[i].volume = FirstRows[i].volume

\* A second run beside another bodyweight file: the volume of the
\* bodyweight set changes, that of the standard set does not, and the gym
\* chosen among entries of one date is the same.
C29_Witness ==
    /\ SecondRun
    /\ files.bodyweight_data # first_run.files.bodyweight_data
    /\ GymDatesTie
    /\ \E i, j \in DOMAIN FirstRows :
          /\ FirstRows[i].weight_type = "bodyweight"
          /\ workout_data.rows[i].volume # FirstRows[i].volume
          /\ FirstRows[j].weight_type = "standard"
          /\ workout_data.rows[j].volume = FirstRows[j].volume
          /\ FirstRows[j].gym # "Unknown"

\* C30: the streak of an empty frame is 0; it is 0 when the most recent
\* logged week is 2 or more weeks after the current week, and the run length
\* when it is exactly 1 week after; it is never negative and never more than
\* the number of logged weeks.
C30_StreakFutureOrEmpty ==
    page = "dashboard" =>
        /\ workout_data.rows = <<>> => streak = <<0>>
        /\ (Shown /\ LastLoggedWeek - CurrentWeek >= 2) => streak = <<0>>
        /\ (Shown /\ LastLoggedWeek - CurrentWeek = 1) => streak = <<RunLength>>
        /\ 0 <= streak[1] /\ streak[1] <= Cardinality(LoggedWeeks)

\* Two consecutive logged weeks, the later one three weeks after the
\* current week.
C30_Witness ==
    /\ Shown
    /\ LastLoggedWeek - CurrentWeek = 3
    /\ LastLoggedWeek - 1 \in LoggedWeeks
    /\ streak = <<0>>

====
